---- MODULE Spec2Model ----
(***************************************************************************)
(* TaskFlow API (Express + Mongoose): a model of the request handlers of   *)
(* the server.  Every HTTP request is a record in `reqs`; a handler runs   *)
(* as a sequence of steps, one step per awaited persistence (or network)   *)
(* operation: the awaited operation takes effect and the synchronous code  *)
(* that follows it runs up to the next await.  Steps of different requests *)
(* interleave freely, as on the Node.js event loop.                        *)
(***************************************************************************)
EXTENDS Naturals, Integers, Sequences, FiniteSets, TLC

VARIABLES
    users,      \* User collection: set of documents
    employees,  \* Employee collection
    tasks,      \* Task collection
    configs,    \* Config collection
    ids,        \* ObjectId allocation, one counter per collection
    now,        \* the wall clock (Date.now)
    issued,     \* every token jwt.sign has produced so far
    reqs        \* the requests received so far, each with its handler's position

vars == <<users, employees, tasks, configs, ids, now, issued, reqs>>

----------------------------------------------------------------------------
(* Bounds of the model                                                      *)

\* requests received in a run of the auth routes
MaxAuthRequests == 3
\* requests received in a run of the tenant routes
MaxRequests == 2
\* the last instant of the clock
MaxClock == 2

----------------------------------------------------------------------------
(* Values                                                                   *)

Emails == {"a@x", "b@x"}
Passwords == {"p1", "p2"}
\* req.body.password when the field is not sent: not a string
Undefined == "undefined"
\* a field the request body does not carry (integer-valued fields)
Absent == 0
\* a user id no User document has (an account removed from the database)
UnknownUser == 99

\* null where a document is expected
NoDoc == [id |-> 0]
IsNull(d) == d.id = 0
NoConfig == [userId |-> 0, botToken |-> "", chatId |-> ""]
EmptyBody == [empty |-> TRUE]
NoLoc == [empty |-> TRUE]

\* bcrypt.hash(password, 10) and bcrypt.compare(password, hash)
Hash(p) == <<"bcrypt", p>>

Compare(p, h) == h = Hash(p)

\* jwt.sign({userId}, JWT_SECRET) and jwt.verify(token, JWT_SECRET)
Sign(uid) == [kind |-> "signed", userId |-> uid]
MissingToken == [kind |-> "missing", userId |-> 0]
InvalidToken(uid) == [kind |-> "invalid", userId |-> uid]
Verifies(tok) == tok.kind = "signed"

\* the public user view of the auth responses
UserView(u) == [id |-> u.id, email |-> u.email, role |-> u.role]

\* literal error messages of the source (transliterated)
ErrAuthRequired == "Trebuetsya avtorizaciya"
ErrUserNotFound == "Pol'zovatel' ne najden"
ErrBadToken == "Nevernyj token"
ErrEmailTaken == "Email uzhe zaregistrirovan"
ErrRegister == "Oshibka registracii"
ErrLoginUnknownEmail == "Nevernyj email ili parol'"
ErrLoginWrongPassword == "Nevernyj email ili parol'"
ErrLogin == "Oshibka vhoda"

----------------------------------------------------------------------------
(* Requests                                                                 *)

NewReq(inp) ==
    [op |-> inp.op, pc |-> inp.op, token |-> inp.token, id |-> inp.id,
     body |-> inp.body, user |-> 0, loc |-> NoLoc,
     status |-> 0, resp |-> NoDoc, sends |-> 0, flip |-> FALSE]

\* res.status(s).json(b): the handler is over
Respond(r, s, b) == [r EXCEPT !.pc = "done", !.status = s, !.resp = b]

Fail(r, s, msg) == Respond(r, s, [error |-> msg])

Protected(op) == op \notin {"register", "login"}

\* a client holds only tokens the server signed; a token of a removed
\* account still verifies
Presentable(tok) == tok.kind = "signed" /\ tok.userId # UnknownUser => tok \in issued

Receive(Inputs, Max) ==
    /\ Len(reqs) < Max
    /\ \E inp \in Inputs :
          /\ Presentable(inp.token)
          /\ reqs' = Append(reqs, [NewReq(inp) EXCEPT
                                     !.pc = IF Protected(inp.op) THEN "auth" ELSE inp.op])
    /\ UNCHANGED <<users, employees, tasks, configs, ids, now, issued>>

----------------------------------------------------------------------------
(* authMiddleware                                                           *)

FindUserById(uid) == {u \in users : u.id = uid}

\* the gate without jwt.verify
MutAuthOutcome(r) ==
    IF r.token.kind = "missing" THEN Fail(r, 401, ErrAuthRequired)
    ELSE IF FindUserById(r.token.userId) = {} THEN Fail(r, 401, ErrUserNotFound)
    ELSE [r EXCEPT !.user = r.token.userId, !.pc = r.op]

\* the request after the gate: 401, or req.user set and next() called
AuthOutcome(r) ==
    IF r.token.kind = "missing" THEN Fail(r, 401, ErrAuthRequired)
    ELSE IF ~Verifies(r.token) THEN Fail(r, 401, ErrBadToken)
    ELSE IF FindUserById(r.token.userId) = {} THEN Fail(r, 401, ErrUserNotFound)
    ELSE [r EXCEPT !.user = r.token.userId, !.pc = r.op]

\* GET /api/auth/me has no await of its own: it answers within next()
AfterGate(r) ==
    IF r.pc = "me"
    THEN Respond(r, 200, [user |-> UserView(CHOOSE u \in users : u.id = r.user)])
    ELSE r

AuthStep(i) ==
    /\ reqs[i].pc = "auth"
    /\ reqs' = [reqs EXCEPT ![i] = AfterGate(AuthOutcome(reqs[i]))]
    /\ UNCHANGED <<users, employees, tasks, configs, ids, now, issued>>

----------------------------------------------------------------------------
(* POST /api/auth/register                                                  *)

FindUserByEmail(email) == {u \in users : u.email = email}

RegisterFind(i) ==
    LET r == reqs[i] IN
    /\ r.pc = "register"
    /\ reqs' = [reqs EXCEPT ![i] =
          IF FindUserByEmail(r.body.email) # {} THEN Fail(r, 400, ErrEmailTaken)
          ELSE IF r.body.password = Undefined THEN Fail(r, 500, ErrRegister)
          ELSE [r EXCEPT !.pc = "register_save",
                         !.loc = [hashedPassword |-> Hash(r.body.password)]]]
    /\ UNCHANGED <<users, employees, tasks, configs, ids, now, issued>>

\* user.save(): the unique index on email rejects a second document
RegisterSave(i) ==
    LET r == reqs[i]
        user == [id |-> ids.user + 1, email |-> r.body.email,
                 password |-> r.loc.hashedPassword, role |-> "manager"]
    IN
    /\ r.pc = "register_save"
    /\ IF FindUserByEmail(r.body.email) # {}
       THEN /\ reqs' = [reqs EXCEPT ![i] = Fail(r, 500, ErrRegister)]
            /\ UNCHANGED <<users, ids, issued>>
       ELSE /\ users' = users \cup {user}
            /\ ids' = [ids EXCEPT !.user = @ + 1]
            /\ issued' = issued \cup {Sign(user.id)}
            /\ reqs' = [reqs EXCEPT ![i] =
                  Respond(r, 201, [token |-> Sign(user.id), user |-> UserView(user)])]
    /\ UNCHANGED <<employees, tasks, configs, now>>

----------------------------------------------------------------------------
(* POST /api/auth/login                                                     *)

\* an unknown email answered 404
MutLoginOutcome(r) ==
    LET found == FindUserByEmail(r.body.email) IN
    IF found = {} THEN Fail(r, 404, ErrLoginUnknownEmail)
    ELSE LET user == CHOOSE u \in found : TRUE IN
         IF r.body.password = Undefined THEN Fail(r, 500, ErrLogin)
         ELSE IF ~Compare(r.body.password, user.password)
              THEN Fail(r, 401, ErrLoginWrongPassword)
         ELSE Respond(r, 200, [token |-> Sign(user.id), user |-> UserView(user)])

\* bcrypt.compare rejects when the password is not a string
LoginOutcome(r) ==
    LET found == FindUserByEmail(r.body.email) IN
    IF found = {} THEN Fail(r, 401, ErrLoginUnknownEmail)
    ELSE LET user == CHOOSE u \in found : TRUE IN
         IF r.body.password = Undefined THEN Fail(r, 500, ErrLogin)
         ELSE IF ~Compare(r.body.password, user.password)
              THEN Fail(r, 401, ErrLoginWrongPassword)
         ELSE Respond(r, 200, [token |-> Sign(user.id), user |-> UserView(user)])

Login(i) ==
    LET r == reqs[i] out == LoginOutcome(r) IN
    /\ r.pc = "login"
    /\ reqs' = [reqs EXCEPT ![i] = out]
    /\ issued' = IF out.status = 200 THEN issued \cup {out.resp.token} ELSE issued
    /\ UNCHANGED <<users, employees, tasks, configs, ids, now>>

----------------------------------------------------------------------------
(* Documents and queries                                                    *)

\* JavaScript truthiness of an optional string field
Truthy(s) == s \notin {"", "absent"}

RECURSIVE SortNewestFirst(_)
\* .sort({ createdAt: -1 }); documents of one instant in descending _id order
SortNewestFirst(S) ==
    IF S = {} THEN <<>>
    ELSE LET d == CHOOSE x \in S : \A y \in S :
                     \/ y.createdAt < x.createdAt
                     \/ y.createdAt = x.createdAt /\ y.id <= x.id
         IN <<d>> \o SortNewestFirst(S \ {d})

EmployeesOf(uid) == {e \in employees : e.userId = uid}

\* the filter { _id: id, userId: uid } on Employee
FindEmployee(id, uid) == {e \in employees : e.id = id /\ e.userId = uid}

TasksOf(uid) == {t \in tasks : t.userId = uid}

\* the filter { _id: id, userId: uid } on Task
FindTask(id, uid) == {t \in tasks : t.id = id /\ t.userId = uid}

FindConfig(uid) == {c \in configs : c.userId = uid}

\* Config.findOne({ userId }): the document, or null
ConfigOf(uid) == IF FindConfig(uid) = {} THEN NoConfig ELSE CHOOSE c \in FindConfig(uid) : TRUE

\* populate('employeeId'): the reference replaced by the Employee with that
\* _id, whoever owns it, or by null
Populate(t) ==
    [t EXCEPT !.employeeId =
        IF \E e \in employees : e.id = t.employeeId
        THEN CHOOSE e \in employees : e.id = t.employeeId
        ELSE NoDoc]

PopulateAll(seq) == [k \in DOMAIN seq |-> Populate(seq[k])]

----------------------------------------------------------------------------
(* Employee routes                                                          *)

ErrEmployeeNotFound == "Sotrudnik ne najden"
ErrEmployeeCreate == "Oshibka sozdaniya sotrudnika"
ErrEmployeeHasTasks == "Nel'zya udalit' sotrudnika s aktivnymi zadachami"
MsgEmployeeDeleted == "Sotrudnik udalyon"

\* GET /api/employees
EmployeeList(i) ==
    LET r == reqs[i] IN
    /\ r.pc = "emp_list"
    /\ reqs' = [reqs EXCEPT ![i] =
          Respond(r, 200, [list |-> SortNewestFirst(EmployeesOf(r.user))])]
    /\ UNCHANGED <<users, employees, tasks, configs, ids, now, issued>>

\* POST /api/employees: new Employee({ ...req.body, userId: req.user._id })
EmployeeCreate(i) ==
    LET r == reqs[i]
        employee == [id |-> ids.emp + 1, userId |-> r.user, name |-> r.body.name,
                     createdAt |-> now]
    IN
    /\ r.pc = "emp_create"
    /\ IF r.body.name = "absent"
       THEN /\ reqs' = [reqs EXCEPT ![i] = Fail(r, 500, ErrEmployeeCreate)]
            /\ UNCHANGED <<employees, ids>>
       ELSE /\ employees' = employees \cup {employee}
            /\ ids' = [ids EXCEPT !.emp = @ + 1]
            /\ reqs' = [reqs EXCEPT ![i] = Respond(r, 201, employee)]
    /\ UNCHANGED <<users, tasks, configs, now, issued>>

\* the update document req.body applied to an Employee: every field sent is set
ApplyEmployeeBody(e, b) ==
    [e EXCEPT !.name = IF b.name = "absent" THEN @ ELSE b.name,
              !.userId = IF b.userId = Absent THEN @ ELSE b.userId]

\* PUT /api/employees/:id: findOneAndUpdate({ _id, userId }, req.body, { new: true })
EmployeeUpdate(i) ==
    LET r == reqs[i] found == FindEmployee(r.id, r.user) IN
    /\ r.pc = "emp_update"
    /\ IF found = {}
       THEN /\ reqs' = [reqs EXCEPT ![i] = Fail(r, 404, ErrEmployeeNotFound)]
            /\ UNCHANGED employees
       ELSE LET old == CHOOSE e \in found : TRUE
                new == ApplyEmployeeBody(old, r.body)
            IN /\ employees' = (employees \ {old}) \cup {new}
               /\ reqs' = [reqs EXCEPT ![i] = Respond(r, 200, new)]
    /\ UNCHANGED <<users, tasks, configs, ids, now, issued>>

\* counts the tasks of the other owners
MutCountTasks(uid, eid) == Cardinality({t \in tasks : t.userId # uid /\ t.employeeId = eid})

\* Task.countDocuments({ userId, employeeId })
CountTasks(uid, eid) == Cardinality({t \in tasks : t.userId = uid /\ t.employeeId = eid})

\* DELETE /api/employees/:id, up to the first answer
EmployeeDeleteCount(i) ==
    LET r == reqs[i] taskCount == CountTasks(r.user, r.id) IN
    /\ r.pc = "emp_delete"
    /\ reqs' = [reqs EXCEPT ![i] =
          IF taskCount > 0 THEN Fail(r, 400, ErrEmployeeHasTasks)
          ELSE [r EXCEPT !.pc = "emp_delete_remove"]]
    /\ UNCHANGED <<users, employees, tasks, configs, ids, now, issued>>

\* DELETE /api/employees/:id: findOneAndDelete({ _id, userId })
EmployeeDeleteRemove(i) ==
    LET r == reqs[i] found == FindEmployee(r.id, r.user) IN
    /\ r.pc = "emp_delete_remove"
    /\ IF found = {}
       THEN /\ reqs' = [reqs EXCEPT ![i] = Fail(r, 404, ErrEmployeeNotFound)]
            /\ UNCHANGED employees
       ELSE /\ employees' = employees \ found
            /\ reqs' = [reqs EXCEPT ![i] = Respond(r, 200, [message |-> MsgEmployeeDeleted])]
    /\ UNCHANGED <<users, tasks, configs, ids, now, issued>>

----------------------------------------------------------------------------
(* Task routes                                                              *)

ErrTaskNotFound == "Zadacha ne najdena"
ErrTaskCreate == "Oshibka sozdaniya zadachi"
ErrTaskUpdate == "Oshibka obnovleniya zadachi"
MsgTaskDeleted == "Zadacha udalena"

\* the enum of TaskSchema.status
StatusEnum == {"new", "in_progress", "completed"}

\* GET /api/tasks: Task.find({ userId }) ... .sort({ createdAt: -1 })
TaskListFind(i) ==
    LET r == reqs[i] IN
    /\ r.pc = "task_list"
    /\ reqs' = [reqs EXCEPT ![i] =
          [r EXCEPT !.pc = "task_list_populate",
                    !.loc = [tasks |-> SortNewestFirst(TasksOf(r.user))]]]
    /\ UNCHANGED <<users, employees, tasks, configs, ids, now, issued>>

\* GET /api/tasks: .populate('employeeId'), a second query
TaskListPopulate(i) ==
    LET r == reqs[i] IN
    /\ r.pc = "task_list_populate"
    /\ reqs' = [reqs EXCEPT ![i] = Respond(r, 200, [list |-> PopulateAll(r.loc.tasks)])]
    /\ UNCHANGED <<users, employees, tasks, configs, ids, now, issued>>

\* validation of task.save(): employeeId and deadline are required, status
\* is one of the enum
TaskValid(b) ==
    /\ b.employeeId # Absent
    /\ b.deadline # Absent
    /\ b.status \in StatusEnum \cup {"absent"}

\* new Task({ ...req.body, userId: req.user._id, history: [] })
NewTask(r) ==
    [id |-> ids.task + 1, userId |-> r.user, employeeId |-> r.body.employeeId,
     status |-> IF r.body.status = "absent" THEN "new" ELSE r.body.status,
     deadline |-> r.body.deadline, history |-> <<>>,
     createdAt |-> now, updatedAt |-> now]

\* POST /api/tasks: task.save()
TaskCreateSave(i) ==
    LET r == reqs[i] task == NewTask(r) IN
    /\ r.pc = "task_create"
    /\ IF ~TaskValid(r.body)
       THEN /\ reqs' = [reqs EXCEPT ![i] = Fail(r, 500, ErrTaskCreate)]
            /\ UNCHANGED <<tasks, ids>>
       ELSE /\ tasks' = tasks \cup {task}
            /\ ids' = [ids EXCEPT !.task = @ + 1]
            /\ reqs' = [reqs EXCEPT ![i] =
                  [r EXCEPT !.pc = "task_create_populate", !.loc = [task |-> task]]]
    /\ UNCHANGED <<users, employees, configs, now, issued>>

\* POST /api/tasks: task.populate('employeeId')
TaskCreatePopulate(i) ==
    LET r == reqs[i] IN
    /\ r.pc = "task_create_populate"
    /\ reqs' = [reqs EXCEPT ![i] =
          [r EXCEPT !.pc = "task_create_config", !.loc = [task |-> Populate(r.loc.task)]]]
    /\ UNCHANGED <<users, employees, tasks, configs, ids, now, issued>>

HasCredentials(config) ==
    config.userId # 0 /\ Truthy(config.botToken) /\ Truthy(config.chatId)

\* POST /api/tasks: Config.findOne, then the message is built from
\* task.employeeId, which is null when no Employee has that _id
TaskCreateConfig(i) ==
    LET r == reqs[i] config == ConfigOf(r.user) IN
    /\ r.pc = "task_create_config"
    /\ reqs' = [reqs EXCEPT ![i] =
          IF HasCredentials(config)
          THEN IF IsNull(r.loc.task.employeeId)
               THEN Fail(r, 500, ErrTaskCreate)
               ELSE [r EXCEPT !.pc = "task_create_send"]
          ELSE Respond(r, 201, r.loc.task)]
    /\ UNCHANGED <<users, employees, tasks, configs, ids, now, issued>>

\* sendTelegramNotification: one outbound call; it returns
\* { success } either way and never throws
Sent(r, ok) ==
    [r EXCEPT !.sends = @ + 1,
              !.loc = [task |-> r.loc.task, sent |-> IF ok THEN "ok" ELSE "failed"]]

\* POST /api/tasks: await sendTelegramNotification(...)
TaskCreateSend(i) ==
    LET r == reqs[i] IN
    /\ r.pc = "task_create_send"
    /\ \E ok \in BOOLEAN :
          reqs' = [reqs EXCEPT ![i] = Respond(Sent(r, ok), 201, r.loc.task)]
    /\ UNCHANGED <<users, employees, tasks, configs, ids, now, issued>>

\* PUT /api/tasks/:id: Task.findOne({ _id, userId })
TaskUpdateFind(i) ==
    LET r == reqs[i] found == FindTask(r.id, r.user) IN
    /\ r.pc = "task_update"
    /\ reqs' = [reqs EXCEPT ![i] =
          IF found = {} THEN Fail(r, 404, ErrTaskNotFound)
          ELSE [r EXCEPT !.pc = "task_update_write",
                         !.loc = [oldTask |-> CHOOSE t \in found : TRUE, task |-> NoDoc]]]
    /\ UNCHANGED <<users, employees, tasks, configs, ids, now, issued>>

\* the update replaces the history by the new entry
MutApplyTaskBody(t, b) ==
    [t EXCEPT !.status = IF b.status = "absent" THEN @ ELSE b.status,
              !.employeeId = IF b.employeeId = Absent THEN @ ELSE b.employeeId,
              !.userId = IF b.userId = Absent THEN @ ELSE b.userId,
              !.deadline = IF b.deadline = Absent THEN @ ELSE b.deadline,
              !.updatedAt = now,
              !.history = <<[timestamp |-> now, action |-> "updated", changes |-> b]>>]

\* the update document { ...req.body, updatedAt, $push: { history } } applied
\* to a Task: every field sent is set (no validation), one entry is pushed
ApplyTaskBody(t, b) ==
    [t EXCEPT !.status = IF b.status = "absent" THEN @ ELSE b.status,
              !.employeeId = IF b.employeeId = Absent THEN @ ELSE b.employeeId,
              !.userId = IF b.userId = Absent THEN @ ELSE b.userId,
              !.deadline = IF b.deadline = Absent THEN @ ELSE b.deadline,
              !.updatedAt = now,
              !.history = Append(@, [timestamp |-> now, action |-> "updated", changes |-> b])]

\* the code after the update is awaited: a completion is notified when the
\* body sets completed and the task read before the write was not completed
AfterTaskUpdate(r) ==
    IF r.body.status = "completed" /\ r.loc.oldTask.status # "completed"
    THEN [r EXCEPT !.pc = "task_update_config"]
    ELSE Respond(r, 200, r.loc.task)

\* PUT /api/tasks/:id: findOneAndUpdate({ _id, userId }, ..., { new: true }).
\* A body that sets history conflicts with the $push and the update is refused.
TaskUpdateWrite(i) ==
    LET r == reqs[i] found == FindTask(r.id, r.user) IN
    /\ r.pc = "task_update_write"
    /\ IF r.body.history # "absent"
       THEN /\ reqs' = [reqs EXCEPT ![i] = Fail(r, 500, ErrTaskUpdate)]
            /\ UNCHANGED tasks
       ELSE IF found = {}
       THEN /\ reqs' = [reqs EXCEPT ![i] = AfterTaskUpdate(r)]
            /\ UNCHANGED tasks
       ELSE LET old == CHOOSE t \in found : TRUE
                new == ApplyTaskBody(old, r.body)
            IN /\ tasks' = (tasks \ {old}) \cup {new}
               /\ reqs' = [reqs EXCEPT ![i] =
                     [r EXCEPT !.pc = "task_update_populate",
                               !.loc = [oldTask |-> r.loc.oldTask, task |-> new],
                               !.flip = old.status # "completed" /\ new.status = "completed"]]
    /\ UNCHANGED <<users, employees, configs, ids, now, issued>>

\* PUT /api/tasks/:id: .populate('employeeId') of the updated document
TaskUpdatePopulate(i) ==
    LET r == reqs[i] IN
    /\ r.pc = "task_update_populate"
    /\ reqs' = [reqs EXCEPT ![i] =
          AfterTaskUpdate([r EXCEPT !.loc = [oldTask |-> r.loc.oldTask,
                                             task |-> Populate(r.loc.task)]])]
    /\ UNCHANGED <<users, employees, tasks, configs, ids, now, issued>>

\* PUT /api/tasks/:id: Config.findOne, then the message is built from
\* task.employeeId; task is null when the update matched nothing
TaskUpdateConfig(i) ==
    LET r == reqs[i] config == ConfigOf(r.user) IN
    /\ r.pc = "task_update_config"
    /\ reqs' = [reqs EXCEPT ![i] =
          IF HasCredentials(config)
          THEN IF IsNull(r.loc.task) \/ IsNull(r.loc.task.employeeId)
               THEN Fail(r, 500, ErrTaskUpdate)
               ELSE [r EXCEPT !.pc = "task_update_send"]
          ELSE Respond(r, 200, r.loc.task)]
    /\ UNCHANGED <<users, employees, tasks, configs, ids, now, issued>>

\* PUT /api/tasks/:id: await sendTelegramNotification(...)
TaskUpdateSend(i) ==
    LET r == reqs[i] IN
    /\ r.pc = "task_update_send"
    /\ \E ok \in BOOLEAN :
          reqs' = [reqs EXCEPT ![i] =
             Respond([r EXCEPT !.sends = @ + 1,
                               !.loc = [oldTask |-> r.loc.oldTask, task |-> r.loc.task,
                                        sent |-> IF ok THEN "ok" ELSE "failed"]],
                     200, r.loc.task)]
    /\ UNCHANGED <<users, employees, tasks, configs, ids, now, issued>>

\* DELETE /api/tasks/:id: findOneAndDelete({ _id, userId })
TaskDelete(i) ==
    LET r == reqs[i] found == FindTask(r.id, r.user) IN
    /\ r.pc = "task_delete"
    /\ IF found = {}
       THEN /\ reqs' = [reqs EXCEPT ![i] = Fail(r, 404, ErrTaskNotFound)]
            /\ UNCHANGED tasks
       ELSE /\ tasks' = tasks \ found
            /\ reqs' = [reqs EXCEPT ![i] = Respond(r, 200, [message |-> MsgTaskDeleted])]
    /\ UNCHANGED <<users, employees, configs, ids, now, issued>>

----------------------------------------------------------------------------
(* Config routes                                                            *)

ErrConfigGet == "Oshibka polucheniya konfiguracii"
ErrConfigUpdate == "Oshibka obnovleniya konfiguracii"

\* GET /api/config: Config.findOne({ userId })
ConfigGetFind(i) ==
    LET r == reqs[i] config == ConfigOf(r.user) IN
    /\ r.pc = "config_get"
    /\ reqs' = [reqs EXCEPT ![i] =
          IF config.userId # 0 THEN Respond(r, 200, config)
          ELSE [r EXCEPT !.pc = "config_get_save",
                         !.loc = [config |-> [userId |-> r.user, botToken |-> "",
                                              chatId |-> ""]]]]
    /\ UNCHANGED <<users, employees, tasks, configs, ids, now, issued>>

\* the unique index on Config.userId rejects a second document of one user
InsertConfigRefused(config) == FindConfig(config.userId) # {}

\* GET /api/config: config.save() of the new document
ConfigGetSave(i) ==
    LET r == reqs[i] IN
    /\ r.pc = "config_get_save"
    /\ IF InsertConfigRefused(r.loc.config)
       THEN /\ reqs' = [reqs EXCEPT ![i] = Fail(r, 500, ErrConfigGet)]
            /\ UNCHANGED configs
       ELSE /\ configs' = configs \cup {r.loc.config}
            /\ reqs' = [reqs EXCEPT ![i] = Respond(r, 200, r.loc.config)]
    /\ UNCHANGED <<users, employees, tasks, ids, now, issued>>

\* PUT /api/config: Config.findOne, then either
\* new Config({ userId: req.user._id, ...req.body }), where a userId of the
\* body replaces the caller's, or the two assignments to the document found
ConfigPutFind(i) ==
    LET r == reqs[i] config == ConfigOf(r.user) IN
    /\ r.pc = "config_put"
    /\ reqs' = [reqs EXCEPT ![i] =
          [r EXCEPT !.pc = "config_put_save",
                    !.loc = IF config.userId = 0
                            THEN [isNew |-> TRUE, loaded |-> NoConfig,
                                  config |-> [userId |-> IF r.body.userId = Absent
                                                         THEN r.user ELSE r.body.userId,
                                              botToken |-> r.body.botToken,
                                              chatId |-> r.body.chatId]]
                            ELSE [isNew |-> FALSE, loaded |-> config,
                                  config |-> [config EXCEPT !.botToken = r.body.botToken,
                                                            !.chatId = r.body.chatId]]]]
    /\ UNCHANGED <<users, employees, tasks, configs, ids, now, issued>>

\* save() of a loaded document writes the paths whose value was changed
SaveLoaded(stored, loc) ==
    [stored EXCEPT !.botToken = IF loc.config.botToken # loc.loaded.botToken
                                THEN loc.config.botToken ELSE @,
                   !.chatId = IF loc.config.chatId # loc.loaded.chatId
                              THEN loc.config.chatId ELSE @]

\* PUT /api/config: config.save()
ConfigPutSave(i) ==
    LET r == reqs[i] IN
    /\ r.pc = "config_put_save"
    /\ IF r.loc.isNew
       THEN IF InsertConfigRefused(r.loc.config)
            THEN /\ reqs' = [reqs EXCEPT ![i] = Fail(r, 500, ErrConfigUpdate)]
                 /\ UNCHANGED configs
            ELSE /\ configs' = configs \cup {r.loc.config}
                 /\ reqs' = [reqs EXCEPT ![i] = Respond(r, 200, r.loc.config)]
       ELSE LET stored == ConfigOf(r.loc.config.userId) IN
            /\ configs' = (configs \ {stored}) \cup {SaveLoaded(stored, r.loc)}
            /\ reqs' = [reqs EXCEPT ![i] = Respond(r, 200, r.loc.config)]
    /\ UNCHANGED <<users, employees, tasks, ids, now, issued>>

----------------------------------------------------------------------------
(* GET /api/stats                                                           *)

\* Task.find({ userId })
StatsFind(i) ==
    LET r == reqs[i] IN
    /\ r.pc = "stats"
    /\ reqs' = [reqs EXCEPT ![i] =
          [r EXCEPT !.pc = "stats_compute", !.loc = [tasks |-> TasksOf(r.user), now |-> 0]]]
    /\ UNCHANGED <<users, employees, tasks, configs, ids, now, issued>>

\* counts completed tasks too
MutOverdue(ts, at) == {t \in ts : t.deadline < at}

\* tasks.filter(t => t.status !== 'completed' && new Date(t.deadline) < now)
Overdue(ts, at) == {t \in ts : t.status # "completed" /\ t.deadline < at}

WithStatus(ts, st) == {t \in ts : t.status = st}

\* the stats object, computed from the tasks read and the clock read after
StatsOf(ts, at) ==
    [total |-> Cardinality(ts),
     new |-> Cardinality(WithStatus(ts, "new")),
     inProgress |-> Cardinality(WithStatus(ts, "in_progress")),
     completed |-> Cardinality(WithStatus(ts, "completed")),
     overdue |-> Cardinality(Overdue(ts, at))]

StatsCompute(i) ==
    LET r == reqs[i] IN
    /\ r.pc = "stats_compute"
    /\ reqs' = [reqs EXCEPT ![i] =
          Respond([r EXCEPT !.loc = [tasks |-> r.loc.tasks, now |-> now]],
                  200, StatsOf(r.loc.tasks, now))]
    /\ UNCHANGED <<users, employees, tasks, configs, ids, now, issued>>

\* time passes
Tick ==
    /\ now < MaxClock
    /\ now' = now + 1
    /\ UNCHANGED <<users, employees, tasks, configs, ids, issued, reqs>>

----------------------------------------------------------------------------
(* The auth routes, from an empty database                                  *)

Init ==
    /\ users = {}
    /\ employees = {}
    /\ tasks = {}
    /\ configs = {}
    /\ ids = [user |-> 0, emp |-> 0, task |-> 0]
    /\ now = 1
    /\ issued = {}
    /\ reqs = <<>>

AuthInputs ==
    {[op |-> "register", token |-> MissingToken, id |-> 0,
      body |-> [email |-> e, password |-> p]] : e \in Emails, p \in {"p1", Undefined}}
    \cup
    {[op |-> "login", token |-> MissingToken, id |-> 0,
      body |-> [email |-> e, password |-> p]] : e \in Emails, p \in Passwords \cup {Undefined}}
    \cup
    {[op |-> "me", token |-> t, id |-> 0, body |-> EmptyBody] :
        t \in {Sign(1), Sign(2)}}
    \cup
    {[op |-> "emp_create", token |-> t, id |-> 0, body |-> [name |-> "n1", userId |-> Absent]] :
        t \in {MissingToken, InvalidToken(1), Sign(UnknownUser), Sign(1)}}

Next ==
    \/ Receive(AuthInputs, MaxAuthRequests)
    \/ \E i \in DOMAIN reqs : AuthStep(i)
    \/ \E i \in DOMAIN reqs : RegisterFind(i)
    \/ \E i \in DOMAIN reqs : RegisterSave(i)
    \/ \E i \in DOMAIN reqs : Login(i)
    \/ \E i \in DOMAIN reqs : EmployeeCreate(i)

Spec == Init /\ [][Next]_vars

----------------------------------------------------------------------------
(* The tenant routes, from a database that two Register requests, three    *)
(* POST /api/employees, one POST /api/tasks and, possibly, one             *)
(* PUT /api/config have filled                                             *)

TenantUsers ==
    {[id |-> 1, email |-> "a@x", password |-> Hash("p1"), role |-> "manager"],
     [id |-> 2, email |-> "b@x", password |-> Hash("p1"), role |-> "manager"]}

TenantEmployees ==
    {[id |-> 1, userId |-> 1, name |-> "n1", createdAt |-> 1],
     [id |-> 2, userId |-> 1, name |-> "n1", createdAt |-> 1],
     [id |-> 3, userId |-> 2, name |-> "n1", createdAt |-> 1]}

TenantTasks ==
    {[id |-> 1, userId |-> 1, employeeId |-> 1, status |-> "new", deadline |-> 1,
      history |-> <<>>, createdAt |-> 1, updatedAt |-> 1]}

Credentials(uid) == [userId |-> uid, botToken |-> "tok", chatId |-> "chat"]

InitTenants ==
    /\ users = TenantUsers
    /\ employees = TenantEmployees
    /\ tasks = TenantTasks
    /\ configs \in {{}, {Credentials(1)}}
    /\ ids = [user |-> 2, emp |-> 3, task |-> 1]
    /\ now = 1
    /\ issued = {Sign(1), Sign(2)}
    /\ reqs = <<>>

In(op, uid, id, body) == [op |-> op, token |-> Sign(uid), id |-> id, body |-> body]

EmployeeBody(name, uid) == [name |-> name, userId |-> uid]

TaskBody(status, eid, uid, deadline) ==
    [status |-> status, employeeId |-> eid, userId |-> uid, deadline |-> deadline,
     history |-> "absent"]

EmployeeInputs ==
    {In("emp_list", 1, 0, EmptyBody), In("task_list", 1, 0, EmptyBody),
     In("emp_create", 2, 0, EmployeeBody("n1", Absent)),
     In("emp_update", 1, 1, EmployeeBody("n2", Absent)),
     In("emp_update", 1, 3, EmployeeBody("n2", Absent))}
    \cup {In("emp_delete", 1, e, EmptyBody) : e \in {1, 2, 3}}
    \cup {In("emp_delete", 2, 3, EmptyBody)}
    \cup {In("task_create", 1, 0, TaskBody("absent", e, Absent, 1)) : e \in {1, 3}}
    \cup {[op |-> "emp_delete", token |-> t, id |-> 1, body |-> EmptyBody] :
            t \in {MissingToken, InvalidToken(1), Sign(UnknownUser)}}

NextEmployees ==
    \/ Receive(EmployeeInputs, MaxRequests)
    \/ \E i \in DOMAIN reqs : AuthStep(i)
    \/ \E i \in DOMAIN reqs : EmployeeList(i)
    \/ \E i \in DOMAIN reqs : EmployeeCreate(i)
    \/ \E i \in DOMAIN reqs : EmployeeUpdate(i)
    \/ \E i \in DOMAIN reqs : EmployeeDeleteCount(i)
    \/ \E i \in DOMAIN reqs : EmployeeDeleteRemove(i)
    \/ \E i \in DOMAIN reqs : TaskListFind(i)
    \/ \E i \in DOMAIN reqs : TaskListPopulate(i)
    \/ \E i \in DOMAIN reqs : TaskCreateSave(i)
    \/ \E i \in DOMAIN reqs : TaskCreatePopulate(i)
    \/ \E i \in DOMAIN reqs : TaskCreateConfig(i)
    \/ \E i \in DOMAIN reqs : TaskCreateSend(i)

SpecEmployees == InitTenants /\ [][NextEmployees]_vars

----------------------------------------------------------------------------
(* The task routes                                                          *)

\* an ObjectId no Employee document has
NoSuchEmployee == 9

TaskInputs ==
    {In("task_update", 1, 1, TaskBody(st, Absent, Absent, Absent)) :
        st \in {"completed", "in_progress"}}
    \cup {In("task_update", 1, 1, TaskBody("completed", NoSuchEmployee, Absent, Absent)),
          In("task_update", 2, 1, TaskBody("completed", Absent, Absent, Absent)),
          In("task_create", 1, 0, TaskBody("absent", 1, Absent, 1)),
          In("task_create", 1, 0, TaskBody("absent", NoSuchEmployee, Absent, 1)),
          In("task_create", 1, 0, TaskBody("absent", 1, Absent, Absent)),
          In("task_delete", 1, 1, EmptyBody)}

NextTasks ==
    \/ Receive(TaskInputs, MaxRequests)
    \/ \E i \in DOMAIN reqs : AuthStep(i)
    \/ \E i \in DOMAIN reqs : TaskCreateSave(i)
    \/ \E i \in DOMAIN reqs : TaskCreatePopulate(i)
    \/ \E i \in DOMAIN reqs : TaskCreateConfig(i)
    \/ \E i \in DOMAIN reqs : TaskCreateSend(i)
    \/ \E i \in DOMAIN reqs : TaskUpdateFind(i)
    \/ \E i \in DOMAIN reqs : TaskUpdateWrite(i)
    \/ \E i \in DOMAIN reqs : TaskUpdatePopulate(i)
    \/ \E i \in DOMAIN reqs : TaskUpdateConfig(i)
    \/ \E i \in DOMAIN reqs : TaskUpdateSend(i)
    \/ \E i \in DOMAIN reqs : TaskDelete(i)

SpecTasks == InitTenants /\ [][NextTasks]_vars

(* Status updates of one task whose assignee exists                         *)

CompletionInputs ==
    {In("task_update", 1, 1, TaskBody(st, Absent, Absent, Absent)) :
        st \in {"completed", "in_progress", "new"}}

NextCompletion ==
    \/ Receive(CompletionInputs, MaxRequests)
    \/ \E i \in DOMAIN reqs : AuthStep(i)
    \/ \E i \in DOMAIN reqs : TaskUpdateFind(i)
    \/ \E i \in DOMAIN reqs : TaskUpdateWrite(i)
    \/ \E i \in DOMAIN reqs : TaskUpdatePopulate(i)
    \/ \E i \in DOMAIN reqs : TaskUpdateConfig(i)
    \/ \E i \in DOMAIN reqs : TaskUpdateSend(i)

SpecCompletion == InitTenants /\ [][NextCompletion]_vars

(* The config routes                                                        *)

ConfigBody(tok, chat, uid) == [botToken |-> tok, chatId |-> chat, userId |-> uid]

ConfigInputs ==
    {In("config_get", u, 0, EmptyBody) : u \in {1, 2}}
    \cup {In("config_put", u, 0, ConfigBody("tok", "chat", Absent)) : u \in {1, 2}}
    \cup {In("config_put", 1, 0, ConfigBody("", "absent", Absent))}

NextConfig ==
    \/ Receive(ConfigInputs, MaxRequests)
    \/ \E i \in DOMAIN reqs : AuthStep(i)
    \/ \E i \in DOMAIN reqs : ConfigGetFind(i)
    \/ \E i \in DOMAIN reqs : ConfigGetSave(i)
    \/ \E i \in DOMAIN reqs : ConfigPutFind(i)
    \/ \E i \in DOMAIN reqs : ConfigPutSave(i)

SpecConfig == InitTenants /\ [][NextConfig]_vars

(* Stats, with tasks completed while the clock runs                         *)

StatsInputs ==
    {In("stats", 1, 0, EmptyBody), In("stats", 2, 0, EmptyBody),
     In("task_update", 1, 1, TaskBody("in_progress", Absent, Absent, Absent))}
    \cup {In("task_update", 1, t, TaskBody("completed", Absent, Absent, Absent)) :
            t \in {1, 2}}

\* a second POST /api/tasks has been answered; no Config has credentials,
\* so no notification is sent
InitStats ==
    /\ users = TenantUsers
    /\ employees = TenantEmployees
    /\ tasks = TenantTasks \cup
          {[id |-> 2, userId |-> 1, employeeId |-> 2, status |-> "new", deadline |-> 1,
            history |-> <<>>, createdAt |-> 1, updatedAt |-> 1]}
    /\ configs = {}
    /\ ids = [user |-> 2, emp |-> 3, task |-> 2]
    /\ now = 1
    /\ issued = {Sign(1), Sign(2)}
    /\ reqs = <<>>

NextStats ==
    \/ Receive(StatsInputs, MaxRequests)
    \/ Tick
    \/ \E i \in DOMAIN reqs : AuthStep(i)
    \/ \E i \in DOMAIN reqs : StatsFind(i)
    \/ \E i \in DOMAIN reqs : StatsCompute(i)
    \/ \E i \in DOMAIN reqs : TaskUpdateFind(i)
    \/ \E i \in DOMAIN reqs : TaskUpdateWrite(i)
    \/ \E i \in DOMAIN reqs : TaskUpdatePopulate(i)
    \/ \E i \in DOMAIN reqs : TaskUpdateConfig(i)

SpecStats == InitStats /\ [][NextStats]_vars

(* The history of a task that one Update has already changed              *)

\* a body that also carries a history field
WithHistory(b) == [b EXCEPT !.history = "sent"]

HistoryInputs ==
    {In("task_create", 1, 0, WithHistory(TaskBody("absent", 1, Absent, 1))),
     In("task_update", 1, 1, TaskBody("completed", Absent, Absent, Absent)),
     In("task_update", 1, 1, TaskBody("absent", Absent, Absent, 2)),
     In("task_update", 1, 1, WithHistory(TaskBody("new", Absent, Absent, Absent))),
     In("task_delete", 1, 1, EmptyBody)}

FirstUpdate == TaskBody("in_progress", Absent, Absent, Absent)

\* PUT /api/tasks/1 { status: 'in_progress' } has been answered
InitHistory ==
    /\ users = TenantUsers
    /\ employees = TenantEmployees
    /\ tasks = {[id |-> 1, userId |-> 1, employeeId |-> 1, status |-> "in_progress",
                 deadline |-> 1, createdAt |-> 1, updatedAt |-> 1,
                 history |-> <<[timestamp |-> 1, action |-> "updated",
                                changes |-> FirstUpdate]>>]}
    /\ configs \in {{}, {Credentials(1)}}
    /\ ids = [user |-> 2, emp |-> 3, task |-> 1]
    /\ now = 1
    /\ issued = {Sign(1), Sign(2)}
    /\ reqs = <<>>

NextHistory ==
    \/ Receive(HistoryInputs, MaxRequests)
    \/ \E i \in DOMAIN reqs : AuthStep(i)
    \/ \E i \in DOMAIN reqs : TaskCreateSave(i)
    \/ \E i \in DOMAIN reqs : TaskCreatePopulate(i)
    \/ \E i \in DOMAIN reqs : TaskCreateConfig(i)
    \/ \E i \in DOMAIN reqs : TaskCreateSend(i)
    \/ \E i \in DOMAIN reqs : TaskUpdateFind(i)
    \/ \E i \in DOMAIN reqs : TaskUpdateWrite(i)
    \/ \E i \in DOMAIN reqs : TaskUpdatePopulate(i)
    \/ \E i \in DOMAIN reqs : TaskUpdateConfig(i)
    \/ \E i \in DOMAIN reqs : TaskUpdateSend(i)
    \/ \E i \in DOMAIN reqs : TaskDelete(i)

SpecHistory == InitHistory /\ [][NextHistory]_vars

(* Creates and Updates whose body names an owner                           *)

OwnershipInputs ==
    {In("emp_create", 1, 0, EmployeeBody("n1", 2)),
     In("emp_update", 1, 1, EmployeeBody("n2", 2)),
     In("emp_update", 1, 2, EmployeeBody("n2", Absent)),
     In("task_create", 1, 0, TaskBody("absent", 1, 2, 1)),
     In("task_update", 1, 1, TaskBody("in_progress", Absent, 2, Absent)),
     In("task_update", 1, 1, TaskBody("completed", Absent, Absent, Absent))}

NextOwnership ==
    \/ Receive(OwnershipInputs, MaxRequests)
    \/ \E i \in DOMAIN reqs : AuthStep(i)
    \/ \E i \in DOMAIN reqs : EmployeeCreate(i)
    \/ \E i \in DOMAIN reqs : EmployeeUpdate(i)
    \/ \E i \in DOMAIN reqs : TaskCreateSave(i)
    \/ \E i \in DOMAIN reqs : TaskCreatePopulate(i)
    \/ \E i \in DOMAIN reqs : TaskCreateConfig(i)
    \/ \E i \in DOMAIN reqs : TaskCreateSend(i)
    \/ \E i \in DOMAIN reqs : TaskUpdateFind(i)
    \/ \E i \in DOMAIN reqs : TaskUpdateWrite(i)
    \/ \E i \in DOMAIN reqs : TaskUpdatePopulate(i)
    \/ \E i \in DOMAIN reqs : TaskUpdateConfig(i)
    \/ \E i \in DOMAIN reqs : TaskUpdateSend(i)

SpecOwnership == InitTenants /\ [][NextOwnership]_vars

(* Employee Delete next to Task Create and Update for that Employee        *)

IntegrityInputs ==
    {In("emp_delete", 1, 1, EmptyBody),
     In("emp_delete", 1, 2, EmptyBody),
     In("task_create", 1, 0, TaskBody("absent", 2, Absent, 1)),
     In("task_update", 1, 1, TaskBody("absent", 2, Absent, Absent))}

NextIntegrity ==
    \/ Receive(IntegrityInputs, MaxRequests)
    \/ \E i \in DOMAIN reqs : AuthStep(i)
    \/ \E i \in DOMAIN reqs : EmployeeDeleteCount(i)
    \/ \E i \in DOMAIN reqs : EmployeeDeleteRemove(i)
    \/ \E i \in DOMAIN reqs : TaskCreateSave(i)
    \/ \E i \in DOMAIN reqs : TaskCreatePopulate(i)
    \/ \E i \in DOMAIN reqs : TaskCreateConfig(i)
    \/ \E i \in DOMAIN reqs : TaskCreateSend(i)
    \/ \E i \in DOMAIN reqs : TaskUpdateFind(i)
    \/ \E i \in DOMAIN reqs : TaskUpdateWrite(i)
    \/ \E i \in DOMAIN reqs : TaskUpdatePopulate(i)

SpecIntegrity == InitTenants /\ [][NextIntegrity]_vars

(* Stats after Creates, Updates and Deletes, some with a status outside    *)
(* the enum                                                                 *)

PartitionInputs ==
    {In("stats", 1, 0, EmptyBody),
     In("task_create", 1, 0, TaskBody("in_progress", 1, Absent, 1)),
     In("task_create", 1, 0, TaskBody("archived", 1, Absent, 1)),
     In("task_update", 1, 1, TaskBody("archived", Absent, Absent, Absent)),
     In("task_delete", 1, 2, EmptyBody)}

NextPartition ==
    \/ Receive(PartitionInputs, MaxRequests)
    \/ Tick
    \/ \E i \in DOMAIN reqs : AuthStep(i)
    \/ \E i \in DOMAIN reqs : StatsFind(i)
    \/ \E i \in DOMAIN reqs : StatsCompute(i)
    \/ \E i \in DOMAIN reqs : TaskCreateSave(i)
    \/ \E i \in DOMAIN reqs : TaskCreatePopulate(i)
    \/ \E i \in DOMAIN reqs : TaskCreateConfig(i)
    \/ \E i \in DOMAIN reqs : TaskUpdateFind(i)
    \/ \E i \in DOMAIN reqs : TaskUpdateWrite(i)
    \/ \E i \in DOMAIN reqs : TaskUpdatePopulate(i)
    \/ \E i \in DOMAIN reqs : TaskDelete(i)

SpecPartition == InitStats /\ [][NextPartition]_vars

----------------------------------------------------------------------------
(* Properties                                                               *)

Done(r) == r.pc = "done"

\* request i takes a step
Steps(i) == reqs'[i] # reqs[i]

\* request i is answered by this step
Answered(i) == ~Done(reqs[i]) /\ Done(reqs'[i])

\* the owners of the records a response carries
OwnersIn(r) ==
    IF r.status \notin {200, 201} THEN {}
    ELSE IF r.op = "emp_list" THEN {r.resp.list[k].userId : k \in DOMAIN r.resp.list}
    ELSE IF r.op \in {"emp_create", "emp_update", "config_get", "config_put"}
         THEN {r.resp.userId}
    ELSE IF r.op = "task_list"
         THEN {r.resp.list[k].userId : k \in DOMAIN r.resp.list}
              \cup {r.resp.list[k].employeeId.userId :
                      k \in {n \in DOMAIN r.resp.list : ~IsNull(r.resp.list[n].employeeId)}}
    ELSE IF r.op \in {"task_create", "task_update"} /\ ~IsNull(r.resp)
         THEN {r.resp.userId}
              \cup (IF IsNull(r.resp.employeeId) THEN {} ELSE {r.resp.employeeId.userId})
    ELSE {}

\* C1: for an Employee E of another user than the caller, Employee List
\* never returns E, and Employee Update and Delete with E's id answer 404
\* and leave E as it is
C1_ForeignEmployeeNotFound ==
    [][\A i \in DOMAIN reqs :
          LET r == reqs[i] IN
          /\ Steps(i) /\ r.user # 0 =>
                \A e \in employees : e.userId # r.user => e \in employees'
          /\ Answered(i) /\ r.op = "emp_list" /\ reqs'[i].status = 200 =>
                OwnersIn(reqs'[i]) \subseteq {r.user}
          /\ ( /\ Answered(i)
               /\ r.op \in {"emp_update", "emp_delete"}
               /\ r.user # 0
               /\ \E e \in employees : e.id = r.id /\ e.userId # r.user )
             => reqs'[i].status = 404]_vars

\* C2: no response to a request of user A carries a record owned by
\* another user, and no request of A changes such a record
C2_TenantIsolation ==
    [][\A i \in DOMAIN reqs :
          LET r == reqs[i] IN
          /\ Answered(i) /\ r.user # 0 => OwnersIn(reqs'[i]) \subseteq {r.user}
          /\ Steps(i) /\ r.user # 0 =>
                /\ \A e \in employees : e.userId # r.user => e \in employees'
                /\ \A t \in tasks : t.userId # r.user => t \in tasks'
                /\ \A c \in configs : c.userId # r.user => c \in configs'
                /\ \A e \in employees' : e.userId # r.user => e \in employees
                /\ \A t \in tasks' : t.userId # r.user => t \in tasks
                /\ \A c \in configs' : c.userId # r.user => c \in configs]_vars

\* C3: a Register request for an email that does not create the account
\* answers 400, and no email ever has two User documents
C3_RegisterTwiceConflict ==
    /\ \A i \in DOMAIN reqs :
          LET r == reqs[i] IN
          r.op = "register" /\ Done(r) /\ r.body.password # Undefined
             => r.status \in {201, 400}
    /\ \A u, v \in users : u.email = v.email => u = v

AllDone == \A i \in DOMAIN reqs : Done(reqs[i])

UpdatesOf(tid) == {i \in DOMAIN reqs : reqs[i].op = "task_update" /\ reqs[i].id = tid}

\* C5: once its Update requests are answered, a task's history has as
\* many entries as Update requests on it answered successfully
C5_HistoryCountsUpdates ==
    AllDone =>
       \A t \in tasks :
          Len(t.history) = Cardinality({i \in UpdatesOf(t.id) : reqs[i].status = 200})

\* notification attempts made for, and transitions into completed of, a task
Attempts(tid) == Cardinality({i \in UpdatesOf(tid) : reqs[i].sends > 0})
Transitions(tid) == Cardinality({i \in UpdatesOf(tid) : reqs[i].flip})

\* C6: each transition of a task into completed has exactly one
\* notification attempt when the owner's Config has both credentials, and
\* there is no attempt otherwise
C6_OneAttemptPerTransition ==
    AllDone =>
       \A t \in tasks :
          Attempts(t.id) = IF HasCredentials(ConfigOf(t.userId)) THEN Transitions(t.id)
                           ELSE 0

\* C7: Stats counts as overdue the caller's tasks that are not completed
\* and whose deadline is strictly before the instant of the request, and as
\* completed those whose status is completed
C7_StatsOverdue ==
    [][\A i \in DOMAIN reqs :
          LET r == reqs[i] IN
          /\ Steps(i) /\ r.pc = "stats" =>
                reqs'[i].loc.tasks = {t \in tasks : t.userId = r.user}
          /\ Steps(i) /\ r.pc = "stats_compute" =>
                /\ reqs'[i].status = 200
                /\ reqs'[i].resp.overdue =
                      Cardinality({t \in r.loc.tasks :
                                     t.status # "completed" /\ t.deadline < now})
                /\ reqs'[i].resp.completed =
                      Cardinality({t \in r.loc.tasks : t.status = "completed"})]_vars

\* a task past its deadline counts while new and no more once an Update
\* has completed it
C7_Witness ==
    \E i, j \in DOMAIN reqs :
        /\ reqs[i].op = "task_update" /\ reqs[i].status = 200
        /\ reqs[j].op = "stats" /\ reqs[j].status = 200
        /\ \E t, u \in reqs[j].loc.tasks :
              /\ t.id = reqs[i].id /\ t.status = "completed"
              /\ t.deadline < reqs[j].loc.now
              /\ u.status = "new" /\ u.deadline < reqs[j].loc.now
        /\ reqs[j].resp.overdue = 1 /\ reqs[j].resp.completed = 1

\* C8: Config Get and Update of a user always answer 200 with that user's
\* Config, and leave exactly one Config of the user
C8_ConfigFirstReads ==
    \A i \in DOMAIN reqs :
       LET r == reqs[i] IN
       r.op \in {"config_get", "config_put"} /\ Done(r) /\ r.status # 401 =>
          /\ r.status = 200
          /\ r.resp.userId = r.user
          /\ Cardinality(FindConfig(r.user)) = 1

\* the Employee the caller of request r owns under r's id, if any
OwnTarget(r) == {e \in employees : e.id = r.id /\ e.userId = r.user}

References(r) == {t \in tasks : t.userId = r.user /\ t.employeeId = r.id}

\* C4: Employee Delete by the owner answers 400 and removes nothing when a
\* Task of the owner references the Employee (as the handler counts them),
\* and otherwise removes the Employee and answers 200
C4_DeleteBlockedByTasks ==
    [][\A i \in DOMAIN reqs :
          LET r == reqs[i] IN
          /\ Steps(i) /\ r.pc = "emp_delete" /\ OwnTarget(r) # {} =>
                IF References(r) # {}
                THEN /\ Done(reqs'[i]) /\ reqs'[i].status = 400
                     /\ employees' = employees
                ELSE ~Done(reqs'[i]) /\ employees' = employees
          /\ Steps(i) /\ r.pc = "emp_delete_remove" /\ OwnTarget(r) # {} =>
                /\ Done(reqs'[i]) /\ reqs'[i].status = 200
                /\ employees' = employees \ OwnTarget(r)
          /\ Answered(i) /\ r.op = "emp_delete" /\ reqs'[i].status = 400 =>
                References(r) # {}]_vars

C4_Witness ==
    \E i, j \in DOMAIN reqs :
        /\ reqs[i].op = "emp_delete" /\ reqs[i].status = 400
        /\ OwnTarget(reqs[i]) # {} /\ References(reqs[i]) # {}
        /\ reqs[j].op = "emp_delete" /\ reqs[j].status = 200
        /\ reqs[j].user = reqs[i].user
        /\ \A e \in employees : e.id # reqs[j].id

BadToken(r) ==
    \/ r.token.kind = "missing"
    \/ ~Verifies(r.token)
    \/ FindUserById(r.token.userId) = {}

\* the gate has decided request r
Gated(r) == Protected(r.op) /\ r.pc # "auth"

GateInv(r) ==
    /\ Gated(r) /\ r.user # 0 =>
          r.token \in issued /\ r.token.userId = r.user /\ FindUserById(r.user) # {}
    /\ Gated(r) /\ ~Done(r) => r.user # 0
    /\ Gated(r) /\ r.status # 401 => r.user # 0
    /\ Gated(r) /\ BadToken(r) => r.status = 401 /\ r.user = 0

\* C9: a protected handler runs with identity U only for a token issued
\* for U; a missing, invalid or unknown-user token is answered 401 at the
\* gate, with no Employee, Task or Config changed
C9_AuthGate ==
    [][/\ \A i \in DOMAIN reqs' : GateInv(reqs[i])'
       /\ \A i \in DOMAIN reqs :
             /\ Steps(i) /\ reqs[i].pc = "auth" =>
                   UNCHANGED <<employees, tasks, configs>>
             /\ Answered(i) /\ Protected(reqs[i].op) /\ reqs'[i].status = 401 =>
                   reqs[i].pc = "auth"]_vars

C9_Witness ==
    \E i, j, k \in DOMAIN reqs :
        /\ reqs[k].op = "register" /\ reqs[k].status = 201
        /\ reqs[j].op = "emp_create" /\ reqs[j].status = 201
        /\ reqs[j].token = reqs[k].resp.token
        /\ reqs[j].resp.userId = reqs[k].resp.user.id
        /\ reqs[i].op = "emp_create" /\ reqs[i].status = 401
        /\ reqs[i].token.kind \in {"invalid", "missing"}
        /\ Cardinality(employees) = 1

\* the generic answer of a failed login
BadCredentials == [error |-> "Nevernyj email ili parol'"]

WrongCredentials(r) ==
    \/ FindUserByEmail(r.body.email) = {}
    \/ /\ r.body.password # Undefined
       /\ \E u \in FindUserByEmail(r.body.email) : u.password # Hash(r.body.password)

Persisted(r) ==
    \/ r.pc \in {"task_create_populate", "task_create_config", "task_create_send"}
    \/ r.pc \in {"task_update_populate", "task_update_send"}
    \/ r.pc = "task_update_config" /\ ~IsNull(r.loc.task)

\* C11: a Task Create or Task Update whose write was persisted is answered
\* 201 or 200 with the task, whatever becomes of the notification; it is
\* never answered 500
C11_NotificationIsolated ==
    [][\A i \in DOMAIN reqs :
          LET r == reqs[i] IN
          Answered(i) /\ Persisted(r) =>
             /\ reqs'[i].status = IF r.op = "task_create" THEN 201 ELSE 200
             /\ reqs'[i].resp.id = r.loc.task.id]_vars

\* C12: a Task Update whose task is absent for the caller, at the lookup or
\* at the write (deleted in between), answers 404 and changes no task; an
\* Update answered 200 carries the updated task
C12_UpdateNotFound ==
    [][\A i \in DOMAIN reqs :
          LET r == reqs[i] IN
          /\ ( /\ Steps(i)
               /\ r.pc \in {"task_update", "task_update_write"}
               /\ FindTask(r.id, r.user) = {} )
             => Done(reqs'[i]) /\ reqs'[i].status = 404 /\ tasks' = tasks
          /\ Answered(i) /\ r.op = "task_update" /\ reqs'[i].status = 200 =>
                ~IsNull(reqs'[i].resp) /\ reqs'[i].resp.id = r.id]_vars

IsPrefix(s, t) == Len(s) <= Len(t) /\ \A k \in 1..Len(s) : s[k] = t[k]

\* C13: a task is created with an empty history; a step keeps the history
\* of every task as a prefix and appends at most one entry, which has the
\* action 'updated' and the body of the Update that steps as its changes
C13_HistoryAppendOnly ==
    [][/\ \A t \in tasks' : (\A u \in tasks : u.id # t.id) => t.history = <<>>
       /\ \A u \in tasks : \A t \in tasks' :
             t.id = u.id =>
                /\ IsPrefix(u.history, t.history)
                /\ Len(t.history) <= Len(u.history) + 1
                /\ Len(t.history) = Len(u.history) + 1 =>
                      LET e == t.history[Len(t.history)] IN
                      /\ e.action = "updated"
                      /\ \E i \in DOMAIN reqs :
                            /\ Steps(i) /\ reqs[i].op = "task_update"
                            /\ reqs[i].id = t.id /\ e.changes = reqs[i].body]_vars

\* a Create whose body carries a history has stored an empty one, and a
\* second Update of task 1 has left the first entry and appended its own
C13_Witness ==
    \E i, j \in DOMAIN reqs :
        /\ reqs[i].op = "task_create" /\ reqs[i].body.history # "absent"
        /\ reqs[i].status = 201
        /\ \E t \in tasks : t.id = reqs[i].resp.id /\ t.history = <<>>
        /\ reqs[j].op = "task_update" /\ reqs[j].status = 200
        /\ \E t \in tasks :
              /\ t.id = reqs[j].id /\ Len(t.history) = 2
              /\ t.history[1].changes = FirstUpdate
              /\ t.history[2].changes = reqs[j].body

\* C14: the Employee a Task is assigned to has the owner of the Task
C14_AssigneeSameOwner ==
    \A t \in tasks : \A e \in employees : e.id = t.employeeId => e.userId = t.userId

\* C15: an Employee or Task is created with the caller as its owner,
\* whatever the body carries, and no step changes the owner of a record
C15_OwnerNeverChanges ==
    [][/\ \A e \in employees : \A f \in employees' : f.id = e.id => f.userId = e.userId
       /\ \A t \in tasks : \A u \in tasks' : u.id = t.id => u.userId = t.userId
       /\ \A i \in DOMAIN reqs :
             Steps(i) =>
                /\ \A f \in employees' :
                      (\A e \in employees : e.id # f.id) => f.userId = reqs[i].user
                /\ \A u \in tasks' :
                      (\A t \in tasks : t.id # u.id) => u.userId = reqs[i].user]_vars

\* C16: the employeeId of every Task is the id of an Employee that exists
C16_AssigneeExists ==
    \A t \in tasks : \E e \in employees : e.id = t.employeeId

\* C17: a Task Create is answered 201 exactly when its save has stored the
\* task; one answered 500 has stored nothing
C17_CreatePersistsIff201 ==
    [][\A i \in DOMAIN reqs :
          LET r == reqs[i] IN
          Answered(i) /\ r.op = "task_create" /\ r.user # 0 =>
             /\ reqs'[i].status \in {201, 500}
             /\ reqs'[i].status = 201 <=> r.pc # "task_create"
             /\ r.pc = "task_create" => tasks' = tasks]_vars

\* C18: in every Stats response total = new + inProgress + completed and
\* overdue <= new + inProgress
C18_StatsPartition ==
    \A i \in DOMAIN reqs :
       LET r == reqs[i] IN
       r.op = "stats" /\ r.status = 200 =>
          /\ r.resp.total = r.resp.new + r.resp.inProgress + r.resp.completed
          /\ r.resp.overdue <= r.resp.new + r.resp.inProgress

====
